---- MODULE Spec2Model ----
(***************************************************************************)
(* AdSnap Studio (src/app.py): the session state of the Streamlit script,  *)
(* the result poller (check_generated_images, auto_check_images) and the   *)
(* response normalisation done by the button handlers of main().           *)
(*                                                                         *)
(* src/services/*.py: the request builders.                                *)
(*                                                                         *)
(* The specifications share the variables:                                 *)
(*   Spec        one browser session: a run of the script per button press *)
(*   SpecPoller  the two poller functions called on arbitrary session      *)
(*               state                                                     *)
(*   SpecAuto    one call of auto_check_images, with fairness              *)
(*   SpecBuilder the request builders called on arbitrary arguments        *)
(*   SpecPrompt  the Generate Images tab: the prompt box, Enhance and      *)
(*               Generate Images                                           *)
(***************************************************************************)
EXTENDS Integers, Sequences, FiniteSets, TLC

\* ---------------------------------------------------------------- bounds
\* longest pending list the poller is started on in SpecPoller
MaxPending == 3
\* longest pending list auto_check_images is started on in SpecAuto
MaxAutoPending == 2
\* largest value of the "number of results" sliders that is tried
MaxResults == 2
\* button presses followed in one session
MaxRuns == 2
\* longest completion text enhance_prompt is given
MaxContent == 3
\* script runs started by the user on the Generate Images tab (SpecPrompt)
MaxPromptRuns == 3

\* ------------------------------------------------------- program constants
max_attempts == 3
HTTP_OK == 200

\* ------------------------------------------------------------------ values
\* Python's None in a session slot
None == "None"
\* URLs that can sit in the pending list when the poller is called
PollURLs == {"url1", "url2", "url3"}
\* what one requests.head(url) call can do: raise, or answer with a status
\* (200, or 204 standing for every other status: the one nearest to 200)
HeadStatuses == {200, 204}
HeadResults ==
    {[exc |-> TRUE, status |-> 0]} \cup
    {[exc |-> FALSE, status |-> s] : s \in HeadStatuses}

RECURSIVE SeqsUpTo(_, _)
SeqsUpTo(S, n) ==
    IF n = 0 THEN {<<>>}
    ELSE LET shorter == SeqsUpTo(S, n - 1)
         IN  shorter \cup {Append(q, x) : q \in {s \in shorter : Len(s) = n - 1}, x \in S}

Range(s) == {s[i] : i \in 1..Len(s)}

\* ------------------------------------------------ responses of the image API
\* A decoded JSON object is a record: keys is the set of keys present
\* ("k in result"), the other fields hold the values of the keys that are
\* present.  result_list says whether result["result"] is a list; its items
\* are records made by the three operators below.
ItemDict(l) == [kind |-> "dict", has_urls |-> TRUE, elems |-> l]
ItemDictNoUrls == [kind |-> "dict", has_urls |-> FALSE, elems |-> <<>>]
ItemList(l) == [kind |-> "list", has_urls |-> FALSE, elems |-> l]

Json(ks, ru, rus, islist, items, us) ==
    [keys |-> ks, result_url |-> ru, result_urls |-> rus,
     result_list |-> islist, result |-> items, urls |-> us]

NoResponse == Json({}, "", <<>>, FALSE, <<>>, <<>>)

Responses == {
    NoResponse,
    Json({"status"}, "", <<>>, FALSE, <<>>, <<>>),
    Json({"result_url", "urls"}, "A", <<>>, FALSE, <<>>, <<"B">>),
    Json({"result_url"}, "", <<>>, FALSE, <<>>, <<>>),
    Json({"result_urls", "urls"}, "", <<>>, FALSE, <<>>, <<"B">>),
    Json({"result_urls", "result", "urls"}, "", <<"B">>, TRUE, <<ItemDict(<<"X", "Y">>)>>, <<"Y">>),
    Json({"result"}, "", <<>>, TRUE, <<ItemDict(<<"X", "Y">>)>>, <<>>),
    Json({"result"}, "", <<>>, TRUE,
         <<ItemDictNoUrls, ItemList(<<>>), ItemList(<<"Y">>), ItemDict(<<"X", "B">>)>>, <<>>),
    Json({"result"}, "", <<>>, TRUE, <<ItemDict(<<>>), ItemDict(<<"X">>)>>, <<>>),
    Json({"result", "urls"}, "", <<>>, TRUE, <<ItemDictNoUrls>>, <<"B">>),
    Json({"result", "urls"}, "", <<>>, FALSE, <<>>, <<"B", "X">>),
    Json({"urls"}, "", <<>>, FALSE, <<>>, <<>>),
    Json({"urls"}, "", <<>>, FALSE, <<>>, <<"B", "X", "Y">>)
}

\* how a request builder call can fail, by what its message contains
Failures == {"timeout", "http_422", "http_500"}

\* "422" in str(e)  (app.py:311, 367, 531, 632, 929)
Mentions422(f) == f = "http_422"

PlacementTypes == {"Original", "Automatic", "Manual Placement",
                   "Manual Padding", "Custom Coordinates"}

Min(a, b) == IF a < b THEN a ELSE b

\* variant of Take: the slice keeps the whole list
Take_all(s, n) == s

\* Python's s[:n] for n >= 0
Take(s, n) == SubSeq(s, 1, Min(n, Len(s)))

\* ------------------------------------------------ response normalisation
\* "if result:" (app.py:235, 463, 564, 776): an empty dict is falsy
Truthy(r) == r.keys # {}

Hit(u) == [hit |-> TRUE, raised |-> FALSE, url |-> u]
Miss == [hit |-> FALSE, raised |-> FALSE, url |-> None]
\* list[0] on an empty list: IndexError
IndexError == [hit |-> FALSE, raised |-> TRUE, url |-> None]
Index0(l) == IF l = <<>> THEN IndexError ELSE Hit(l[1])

\* app.py:247-253, 476-484, 577-585  the loop over result["result"]
RECURSIVE FirstItem(_, _)
FirstItem(items, i) ==
    IF i > Len(items) THEN Miss
    ELSE IF items[i].kind = "dict" /\ items[i].has_urls THEN Index0(items[i].elems)
    ELSE IF items[i].kind = "list" /\ Len(items[i].elems) > 0 THEN Hit(items[i].elems[1])
    ELSE FirstItem(items, i + 1)

\* app.py:242-253  Generate Images tab
ChainGenerate(r) ==
    IF "result_url" \in r.keys THEN Hit(r.result_url)
    ELSE IF "result_urls" \in r.keys THEN Index0(r.result_urls)
    ELSE IF "result" \in r.keys /\ r.result_list THEN FirstItem(r.result, 1)
    ELSE Miss

\* app.py:469-487, 570-588  Lifestyle Shot, synchronous mode
ChainLifestyle(r) ==
    IF "result_url" \in r.keys THEN Hit(r.result_url)
    ELSE IF "result_urls" \in r.keys THEN Index0(r.result_urls)
    ELSE IF "result" \in r.keys /\ r.result_list THEN FirstItem(r.result, 1)
    ELSE IF "urls" \in r.keys THEN Index0(r.urls)
    ELSE Miss

\* app.py:781-788  Generative Fill, synchronous mode
ChainGenFill(r) ==
    IF "urls" \in r.keys /\ r.urls # <<>> THEN Hit(r.urls[1])
    ELSE IF "result_url" \in r.keys THEN Hit(r.result_url)
    ELSE Miss

\* app.py:495-502, 596-603  the loop that gathers URLs in asynchronous mode
RECURSIVE Gather(_, _, _, _)
Gather(items, i, acc, n) ==
    IF i > Len(items) THEN acc
    ELSE LET more == IF items[i].kind = "dict" /\ items[i].has_urls
                        THEN acc \o items[i].elems
                     ELSE IF items[i].kind = "list" THEN acc \o items[i].elems
                     ELSE acc
         IN  IF Len(more) >= n THEN more ELSE Gather(items, i + 1, more, n)

\* app.py:489-505, 590-606  Lifestyle Shot, asynchronous mode
AsyncUrlsLifestyle(r, n) ==
    IF "urls" \in r.keys THEN Take(r.urls, n)
    ELSE IF "result" \in r.keys /\ r.result_list THEN Take(Gather(r.result, 1, <<>>, n), n)
    ELSE <<>>

\* What a handler leaves behind: the three session slots, the status messages
\* it showed, and whether it goes on into auto_check_images.
Out(e, p, g, shown, poll) ==
    [edited |-> e, pending |-> p, generated |-> g, shown |-> shown, poll |-> poll]

\* app.py:311, 367, 531, 632, 929  the handlers whose except clause has the
\* hint on "422"
HintSites == {"packshot", "shadow", "lifestyle_text", "lifestyle_image", "erase"}

\* variant of Caught: the except clause clears the session slots
Caught_reset(site, f, e, p, g) == Out(None, <<>>, <<>>, {"error"}, FALSE)

\* app.py:260-261, 309-312, 365-368, 529-532, 630-633, 809-810, 927-932  the
\* except clause of a handler:
\* the message, and where the handler has one, the hint on "422"
Caught(site, f, e, p, g) ==
    Out(e, p, g,
        {"error"} \cup IF site \in HintSites /\ Mentions422(f)
                       THEN {"hint_422"} ELSE {},
        FALSE)

\* "if st.session_state.edited_image:" (app.py:255, 636, 816, 938): None and
\* the empty string are falsy
IsSet(e) == e # None /\ e # ""

\* app.py:235-258
NormalizeGenerate(r, e, p, g) ==
    IF ~Truthy(r) THEN Out(e, p, g, {}, FALSE)
    ELSE LET c == ChainGenerate(r)
             e2 == IF c.hit THEN c.url ELSE e
         IN  IF c.raised THEN Caught("generate", "index_error", e, p, g)
             ELSE Out(e2, p, g, IF IsSet(e2) THEN {"success"} ELSE {"no_valid"}, FALSE)

\* app.py:463-528, 564-629
NormalizeLifestyle(site, r, sync, n, e, p, g) ==
    IF ~Truthy(r) THEN Out(e, p, g, {}, FALSE)
    ELSE IF sync
    THEN LET c == ChainLifestyle(r)
         IN  IF c.raised THEN Caught(site, "index_error", e, p, g)
             ELSE IF c.hit THEN Out(c.url, p, g, {"success"}, FALSE)
             ELSE Out(e, p, g, {}, FALSE)
    ELSE LET urls == AsyncUrlsLifestyle(r, n)
         IN  IF urls # <<>> THEN Out(e, urls, g, {"started"}, TRUE)
             ELSE Out(e, p, g, {}, FALSE)

\* app.py:776-807
NormalizeGenFill(r, sync, n, e, p, g) ==
    IF ~Truthy(r) THEN Out(e, p, g, {}, FALSE)
    ELSE IF sync
    THEN LET c == ChainGenFill(r)
         IN  IF ~c.hit THEN Out(e, p, g, {}, FALSE)
             ELSE Out(c.url, p,
                      IF "urls" \in r.keys /\ Len(r.urls) > 1 THEN r.urls ELSE g,
                      {"success"}, FALSE)
    ELSE IF "urls" \in r.keys THEN Out(e, Take(r.urls, n), g, {"started"}, TRUE)
         ELSE Out(e, p, g, {}, FALSE)

\* ------------------------------------------------------------------ poller
\* variants of Verdict: every 2xx status counts as ready; the except clause
\* forgets the URL
Verdict_2xx(r) ==
    IF r.exc THEN "pending"
    ELSE IF r.status >= 200 /\ r.status < 300 THEN "ready"
    ELSE "pending"
Verdict_dropexc(r) ==
    IF r.exc THEN "dropped"
    ELSE IF r.status = HTTP_OK THEN "ready"
    ELSE "pending"

\* app.py:102-110  what the loop body does with one HEAD result: the except
\* clause keeps the URL, status 200 makes it ready, any other status keeps it
Verdict(r) ==
    IF r.exc THEN "pending"
    ELSE IF r.status = HTTP_OK THEN "ready"
    ELSE "pending"

\* variant of Classify: a ready URL is kept in still_pending as well
RECURSIVE Classify_both(_, _, _)
Classify_both(urls, res, i) ==
    IF i > Len(urls) THEN [ready |-> <<>>, still |-> <<>>, raised |-> FALSE]
    ELSE LET rest == Classify_both(urls, res, i + 1)
             v == Verdict(res[i])
         IN  [ready  |-> IF v = "ready" THEN <<urls[i]>> \o rest.ready ELSE rest.ready,
              still  |-> <<urls[i]>> \o rest.still,
              raised |-> v = "raise" \/ rest.raised]

\* variant of Classify: still_pending built back to front
RECURSIVE Classify_rev(_, _, _)
Classify_rev(urls, res, i) ==
    IF i > Len(urls) THEN [ready |-> <<>>, still |-> <<>>, raised |-> FALSE]
    ELSE LET rest == Classify_rev(urls, res, i + 1)
             v == Verdict(res[i])
         IN  [ready  |-> IF v = "ready" THEN <<urls[i]>> \o rest.ready ELSE rest.ready,
              still  |-> IF v = "pending" THEN rest.still \o <<urls[i]>> ELSE rest.still,
              raised |-> v = "raise" \/ rest.raised]

\* app.py:101-110  the for loop: ready_images / still_pending in list order
RECURSIVE Classify(_, _, _)
Classify(urls, res, i) ==
    IF i > Len(urls) THEN [ready |-> <<>>, still |-> <<>>, raised |-> FALSE]
    ELSE LET rest == Classify(urls, res, i + 1)
             v == Verdict(res[i])
         IN  [ready  |-> IF v = "ready" THEN <<urls[i]>> \o rest.ready ELSE rest.ready,
              still  |-> IF v = "pending" THEN <<urls[i]>> \o rest.still ELSE rest.still,
              raised |-> v = "raise" \/ rest.raised]

\* variant of FirstReady: the last ready image
FirstReady_last(ready) == ready[Len(ready)]

\* app.py:117  the image put on display
FirstReady(ready) == ready[1]

\* variant of Heads: the list is walked from its end
Heads_rev(p, res) ==
    [i \in 1..Len(p) |-> [url |-> p[Len(p) + 1 - i], res |-> res[Len(p) + 1 - i]]]

\* app.py:101-103  the HEAD requests of one sweep over p, in the order made,
\* when the i-th request does res[i]
Heads(p, res) == [i \in 1..Len(p) |-> [url |-> p[i], res |-> res[i]]]

\* app.py:95-122  check_generated_images on session state (p, e, g) when the
\* i-th HEAD request of the sweep does res[i]; raised says that an exception
\* left the function
CheckGeneratedImages(p, e, g, res) ==
    LET c == Classify(p, res, 1)
    IN  IF p = <<>>
        THEN [pending |-> p, edited |-> e, generated |-> g, ret |-> FALSE,
              raised |-> FALSE]
        ELSE IF c.raised
        THEN [pending |-> p, edited |-> e, generated |-> g, ret |-> FALSE,
              raised |-> TRUE]
        ELSE [pending   |-> c.still,
              edited    |-> IF c.ready # <<>> THEN FirstReady(c.ready) ELSE e,
              generated |-> IF Len(c.ready) > 1 THEN c.ready ELSE g,
              ret       |-> c.ready # <<>>,
              raised    |-> FALSE]

\* variants of LoopCond: one attempt too many; pending not looked at
LoopCond_onemore(a, p) == a <= max_attempts /\ p # <<>>
LoopCond_nopending(a, p) == a < max_attempts

\* app.py:128  the while condition of auto_check_images
LoopCond(a, p) == a < max_attempts /\ p # <<>>

\* the URLs whose HEAD request was answered with status 200, as the server
\* sent them (observation of the environment, independent of Classify)
Is200(r) == ~r.exc /\ r.status = 200
UrlsWhere(heads, want) ==
    LET Pick(h) == Is200(h.res) = want
        chosen == SelectSeq(heads, Pick)
    IN  [i \in 1..Len(chosen) |-> chosen[i].url]
Answered200(heads) == UrlsWhere(heads, TRUE)
NotAnswered200(heads) == UrlsWhere(heads, FALSE)

\* ------------------------------------------------------- request builders
\* src/services/*.py.  A call is modelled whole: its arguments and what the
\* network does are drawn, the result says what the call returned or raised
\* and lists the requests it sent.

\* timeout=15 of every requests.post call
POST_TIMEOUT == 15
\* shadow_height=... else 70 in the Add Shadow handler
UI_SHADOW_HEIGHT == 70
\* app.py:330  where the "Shadow Blur" slider starts: the selector's entry,
\* lowered, is never "regular"
UI_SHADOW_BLUR == 20
\* shadow_height: Optional[int] = 70
DEFAULT_SHADOW_HEIGHT == 70
\* max(1, min(num_results, 4))
GEN_FILL_MIN_RESULTS == 1
GEN_FILL_MAX_RESULTS == 4

Max(a, b) == IF a > b THEN a ELSE b

\* variant of Clamp: only the upper limit is applied
Clamp_upper(n) == Min(n, GEN_FILL_MAX_RESULTS)

\* generative_fills.py:62  max(1, min(num_results, 4))
Clamp(n) == Max(GEN_FILL_MIN_RESULTS, Min(n, GEN_FILL_MAX_RESULTS))

\* the api_key argument and the BRIA_API_KEY environment variable
KeyArgs == {None, "", "arg_key"}
EnvKeys == {None, "", "env_key"}
\* image_data, mask_data and reference_image: None, or a byte string named by
\* its text (b"" is "", b"Man" is "Man"; "fbff" names b"\xfb\xff")
ImageData == {None, "", "M", "Ma", "Man"}
MaskData == {None, "fbff"}
ReferenceImages == {None, "Ma"}
ImageUrls == {None, "", "http://img"}
\* an Optional[int] argument: <<>> for None, <<v>> for the integer v
NoInt == <<>>
ShadowTypes == {"regular", "float"}
NumResultsArgs == {-1, 0, 1, 3, 4, 5}
PlacementArgs == {"original", "automatic", "manual_placement", "manual_padding",
                  "custom_coordinates"}

\* variant of Falsy: only None counts as missing
Falsy_noneonly(x) == x = None

\* "not x" for an optional string or bytes value
Falsy(x) == x = None \/ x = ""

\* variant of Or: the environment is not consulted
Or_first(a, b) == a

\* Python's "a or b"
Or(a, b) == IF Falsy(a) THEN b ELSE a

\* the bytes of a byte string
Bytes(d) ==
    CASE d = "" -> <<>>
      [] d = "M" -> <<77>>
      [] d = "Ma" -> <<77, 97>>
      [] d = "Man" -> <<77, 97, 110>>
      [] d = "fbff" -> <<251, 255>>

\* the base64 alphabet of RFC 4648, the character of value v at position v + 1
B64Alphabet ==
    <<"A", "B", "C", "D", "E", "F", "G", "H", "I", "J", "K", "L", "M",
      "N", "O", "P", "Q", "R", "S", "T", "U", "V", "W", "X", "Y", "Z",
      "a", "b", "c", "d", "e", "f", "g", "h", "i", "j", "k", "l", "m",
      "n", "o", "p", "q", "r", "s", "t", "u", "v", "w", "x", "y", "z",
      "0", "1", "2", "3", "4", "5", "6", "7", "8", "9", "+", "/">>
B64Char(v) == B64Alphabet[v + 1]

\* base64.b64encode: three bytes become four characters, a last group of one
\* or two bytes is padded with "="
RECURSIVE B64Encode(_)
B64Encode(b) ==
    IF Len(b) = 0 THEN <<>>
    ELSE IF Len(b) = 1
    THEN <<B64Char(b[1] \div 4), B64Char((b[1] % 4) * 16), "=", "=">>
    ELSE IF Len(b) = 2
    THEN <<B64Char(b[1] \div 4), B64Char((b[1] % 4) * 16 + b[2] \div 16),
           B64Char((b[2] % 16) * 4), "=">>
    ELSE <<B64Char(b[1] \div 4), B64Char((b[1] % 4) * 16 + b[2] \div 16),
           B64Char((b[2] % 16) * 4 + b[3] \div 64), B64Char(b[3] % 64)>>
         \o B64Encode(SubSeq(b, 4, Len(b)))

\* the ASCII code of a character of an encoded text
Ord(c) ==
    IF c = "=" THEN 61
    ELSE LET v == CHOOSE i \in 0..63 : B64Char(i) = c
         IN  IF v < 26 THEN 65 + v
             ELSE IF v < 52 THEN 97 + (v - 26)
             ELSE IF v < 62 THEN 48 + (v - 52)
             ELSE IF v = 62 THEN 43 ELSE 47

\* variant of B64: the encoded text is encoded once more
B64_twice(d) ==
    LET once == B64Encode(Bytes(d))
    IN  B64Encode([i \in 1..Len(once) |-> Ord(once[i])])

\* base64.b64encode(d).decode("utf-8"), the text as the sequence of its
\* characters
B64(d) == B64Encode(Bytes(d))

\* What the network does with a POST: the connection times out, or fails, or
\* a response comes back with a status and a body; decode names the class
\* response.json() raises on a body that is not JSON: json's JSONDecodeError,
\* a ValueError (requests before 2.27), or requests' JSONDecodeError, which is
\* also a RequestException (requests 2.27 and later)
Net(kind, status, body, decode) ==
    [kind |-> kind, status |-> status, body |-> body, decode |-> decode]
PostStatuses == {200, 304, 422, 500}
NetOutcomes ==
    {Net("timeout", 0, "none", "none"), Net("connection", 0, "none", "none")}
    \cup {Net("response", st, "json", "none") : st \in PostStatuses}
    \cup {Net("response", st, b, d) : st \in PostStatuses, b \in {"not_json", "empty"},
                                       d \in {"ValueError", "JSONDecodeError"}}

\* the classes of the exception raised inside the try block, {} if none:
\* requests.post raises; response.raise_for_status() raises for a status in
\* 400..599; response.json() raises on a body that is not JSON
Raised(net) ==
    IF net.kind = "timeout" THEN {"Timeout", "RequestException"}
    ELSE IF net.kind = "connection" THEN {"ConnectionError", "RequestException"}
    ELSE IF net.status >= 400 /\ net.status < 600 THEN {"HTTPError", "RequestException"}
    ELSE IF net.body = "json" THEN {}
    ELSE IF net.decode = "JSONDecodeError"
         THEN {"JSONDecodeError", "InvalidJSONError", "RequestException", "ValueError"}
    ELSE {"ValueError"}

\* the except clauses of a builder, in the order they are written: the first
\* clause whose class the exception is an instance of makes the message
Translate(classes) ==
    IF "Timeout" \in classes THEN "timeout"
    ELSE IF "HTTPError" \in classes THEN "http_error"
    ELSE IF "RequestException" \in classes THEN "request_error"
    ELSE IF "ValueError" \in classes THEN "invalid_json"
    ELSE "propagates"

\* the result of a call
Result(outcome, error, message, status, posts, value) ==
    [outcome |-> outcome, error |-> error, message |-> message,
     status |-> status, posts |-> posts, value |-> value]

\* raise ValueError(...) / TypeError before the try block
Reject(error, message) == Result("raised", error, message, 0, <<>>, <<>>)

Posted(url, token, payload) ==
    [url |-> url, token |-> token, timeout |-> POST_TIMEOUT, payload |-> payload]

\* variant of Send: a failed request is sent once more
Send_retry(url, token, payload, net) ==
    LET c == Raised(net)
    IN  IF c = {}
        THEN Result("returned", "none", "none", 0,
                    <<Posted(url, token, payload)>>, <<"json">>)
        ELSE Result("raised", "Exception", Translate(c),
                    IF "HTTPError" \in c THEN net.status ELSE 0,
                    <<Posted(url, token, payload), Posted(url, token, payload)>>, <<>>)

\* the try block of a builder: one requests.post with timeout=15, then
\* raise_for_status and json; every exception becomes Exception(message), the
\* HTTPError message carrying the status
Send(url, token, payload, net) ==
    LET c == Raised(net)
    IN  IF c = {}
        THEN Result("returned", "none", "none", 0,
                    <<Posted(url, token, payload)>>, <<"json">>)
        ELSE Result("raised", "Exception", Translate(c),
                    IF "HTTPError" \in c THEN net.status ELSE 0,
                    <<Posted(url, token, payload)>>, <<>>)

\* the JSON body of a request: the keys it has and the values looked at here
Payload(keys) ==
    [keys |-> keys, file |-> <<>>, mask_file |-> <<>>, ref_image_file |-> <<>>,
     image_url |-> None, shadow_type |-> "none", shadow_blur |-> NoInt,
     shadow_width |-> NoInt, shadow_height |-> NoInt, num_results |-> 0]

\* packshot.py:14-87  create_packshot (sku left at its default)
create_packshot(image_data, key, env, net) ==
    LET token == Or(key, env)
    IN  IF Falsy(token) THEN Reject("ValueError", "missing_key")
        ELSE IF image_data = None THEN Reject("TypeError", "type_error")
        ELSE Send("/v1/product/packshot", token,
                  [Payload({"file", "background_color", "force_rmbg",
                            "content_moderation"})
                      EXCEPT !.file = B64(image_data)],
                  net)

\* shadow.py:13-117  add_shadow (background_color and sku left at their
\* defaults)
add_shadow(key, env, image_data, image_url, shadow_type, shadow_blur, shadow_width, shadow_height, net) ==
    LET token == Or(key, env)
        base == {"shadow_type", "shadow_color", "shadow_intensity", "force_rmbg",
                 "content_moderation", "shadow_offset"}
        optional == (IF shadow_blur # NoInt THEN {"shadow_blur"} ELSE {})
                    \cup (IF shadow_width # NoInt THEN {"shadow_width"} ELSE {})
                    \cup (IF shadow_height # NoInt THEN {"shadow_height"} ELSE {})
        data == [Payload(base \cup optional)
                    EXCEPT !.shadow_type = shadow_type,
                           !.shadow_blur = shadow_blur,
                           !.shadow_width = shadow_width,
                           !.shadow_height = shadow_height]
    IN  IF Falsy(token) THEN Reject("ValueError", "missing_key")
        ELSE IF ~Falsy(image_url)
        THEN Send("/v1/product/shadow", token,
                  [data EXCEPT !.keys = @ \cup {"image_url"}, !.image_url = image_url],
                  net)
        ELSE IF ~Falsy(image_data)
        THEN Send("/v1/product/shadow", token,
                  [data EXCEPT !.keys = @ \cup {"file"}, !.file = B64(image_data)],
                  net)
        ELSE Reject("ValueError", "missing_image")

\* lifestyle_shot.py:86-100, 198-210  the fields that depend on placement_type
\* (exclude_elements, foreground_image_size, foreground_image_location and
\* sku left at their defaults)
PlacementKeys(placement_type) ==
    (IF placement_type \in {"automatic", "manual_placement", "custom_coordinates"}
     THEN {"shot_size"} ELSE {})
    \cup (IF placement_type = "manual_placement" THEN {"manual_placement_selection"} ELSE {})
    \cup (IF placement_type = "manual_padding" THEN {"padding_values"} ELSE {})

\* lifestyle_shot.py:15-125  lifestyle_shot_by_text
lifestyle_shot_by_text(key, env, image_data, placement_type, num_results, net) ==
    LET token == Or(key, env)
    IN  IF Falsy(token) THEN Reject("ValueError", "missing_key")
        ELSE IF image_data = None THEN Reject("TypeError", "type_error")
        ELSE Send("/v1/product/lifestyle_shot_by_text", token,
                  [Payload({"file", "scene_description", "placement_type",
                            "num_results", "sync", "fast", "optimize_description",
                            "original_quality", "force_rmbg", "content_moderation"}
                           \cup PlacementKeys(placement_type))
                      EXCEPT !.file = B64(image_data), !.num_results = num_results],
                  net)

\* lifestyle_shot.py:128-235  lifestyle_shot_by_image
lifestyle_shot_by_image(key, env, image_data, reference_image, placement_type, num_results, net) ==
    LET token == Or(key, env)
    IN  IF Falsy(token) THEN Reject("ValueError", "missing_key")
        ELSE IF image_data = None \/ reference_image = None
        THEN Reject("TypeError", "type_error")
        ELSE Send("/v1/product/lifestyle_shot_by_image", token,
                  [Payload({"file", "ref_image_file", "placement_type", "num_results",
                            "sync", "original_quality", "force_rmbg",
                            "content_moderation", "enhance_ref_image",
                            "ref_image_influence"}
                           \cup PlacementKeys(placement_type))
                      EXCEPT !.file = B64(image_data),
                             !.ref_image_file = B64(reference_image),
                             !.num_results = num_results],
                  net)

\* generative_fills.py:14-101  generative_fill (negative_prompt and seed left
\* at their defaults)
generative_fill(key, env, image_data, mask_data, num_results, net) ==
    LET token == Or(key, env)
    IN  IF Falsy(token) THEN Reject("ValueError", "missing_key")
        ELSE IF image_data = None \/ mask_data = None
        THEN Reject("TypeError", "type_error")
        ELSE Send("/v1/gen_fill", token,
                  [Payload({"file", "mask_file", "mask_type", "prompt", "num_results",
                            "sync", "content_moderation"})
                      EXCEPT !.file = B64(image_data), !.mask_file = B64(mask_data),
                             !.num_results = Clamp(num_results)],
                  net)

\* variant of erase_foreground: the image source is checked before the key
erase_foreground_imagefirst(key, env, image_data, image_url, net) ==
    LET token == Or(key, env)
    IN  IF Falsy(image_data) /\ Falsy(image_url)
        THEN Reject("ValueError", "missing_image")
        ELSE IF Falsy(token) THEN Reject("ValueError", "missing_key")
        ELSE IF ~Falsy(image_url)
        THEN Send("/v1/erase_foreground", token,
                  [Payload({"content_moderation", "image_url"})
                      EXCEPT !.image_url = image_url],
                  net)
        ELSE Send("/v1/erase_foreground", token,
                  [Payload({"content_moderation", "file"})
                      EXCEPT !.file = B64(image_data)],
                  net)

\* erase_foreground.py:14-84  erase_foreground
erase_foreground(key, env, image_data, image_url, net) ==
    LET token == Or(key, env)
    IN  IF Falsy(token) THEN Reject("ValueError", "missing_key")
        ELSE IF Falsy(image_data) /\ Falsy(image_url)
        THEN Reject("ValueError", "missing_image")
        ELSE IF ~Falsy(image_url)
        THEN Send("/v1/erase_foreground", token,
                  [Payload({"content_moderation", "image_url"})
                      EXCEPT !.image_url = image_url],
                  net)
        ELSE Send("/v1/erase_foreground", token,
                  [Payload({"content_moderation", "file"})
                      EXCEPT !.file = B64(image_data)],
                  net)

\* ---- prompt_enhancement.py
\* a text is the sequence of its characters
Chars == {" ", "x"}
Texts == SeqsUpTo(Chars, MaxContent)
Prompts == {<<>>, <<"p">>, <<" ", "p", " ">>}
\* client.api_key, set from OPENROUTER_API_KEY when the module is loaded
ClientKeys == {None, "", "router_key"}
\* what client.chat.completions.create does: it raises, or returns a completion
\* without choices, or with content None, or with a content text
Completion(kind, text) == [kind |-> kind, text |-> text]
Completions ==
    {Completion(k, <<>>) : k \in {"raises", "no_choices", "content_none"}}
    \cup {Completion("content", t) : t \in Texts}

RECURSIVE LStrip(_)
LStrip(t) == IF t # <<>> /\ t[1] = " " THEN LStrip(Tail(t)) ELSE t
RECURSIVE RStrip(_)
RStrip(t) == IF t # <<>> /\ t[Len(t)] = " " THEN RStrip(SubSeq(t, 1, Len(t) - 1)) ELSE t

\* variant of Strip: the text is taken as it comes
Strip_asis(t) == t

\* str.strip()
Strip(t) == RStrip(LStrip(t))

\* prompt_enhancement.py:16-78  enhance_prompt: without a key nothing is
\* sent; an exception of the call, of choices[0] or of None.strip() is caught
\* and the prompt returned; so is an empty stripped text
enhance_prompt(prompt, client_key, completion) ==
    LET sent == <<[url |-> "chat.completions", token |-> client_key, timeout |-> 0,
                   payload |-> Payload({"model", "messages"})]>>
        enhanced_prompt == Strip(completion.text)
    IN  IF Falsy(client_key) THEN Result("returned", "none", "none", 0, <<>>, prompt)
        ELSE IF completion.kind # "content"
        THEN Result("returned", "none", "none", 0, sent, prompt)
        ELSE Result("returned", "none", "none", 0, sent,
                    IF enhanced_prompt # <<>> THEN enhanced_prompt ELSE prompt)

VARIABLES
    pending_urls,      \* st.session_state.pending_urls
    edited_image,      \* st.session_state.edited_image
    generated_images,  \* st.session_state.generated_images
    pc,                \* "idle"; "run" from the start of the script to the
                       \* buttons; "auto" inside auto_check_images; "rerun"
                       \* after st.rerun() in a handler
    attempt,           \* auto_check_images' local counter
    caller,            \* who called auto_check_images
    last,              \* the last poller step taken
    ret,               \* return value of the last poller call
    entry,             \* session state when the last poller call started
    sweep_pre,         \* session state when the last sweep started
    head_log,          \* HEAD requests of the last sweep, in order
    ok_log,            \* per sweep of the call: the URLs answered with 200
    sleeps,            \* time.sleep calls of the current auto_check_images
    refresh_shown,     \* the "Check for Generated Images" button is on the page
    msgs,              \* what the last script run showed the user
    ev,                \* the button handler of the current or last run, and
                       \* its inputs
    runs,              \* script runs started by the user so far
    api_key,           \* st.session_state.api_key
    prompts,           \* the prompt box and st.session_state's prompt slots
    download,          \* what download_image has done in the current or last run
    call               \* the last call of a request builder (SpecBuilder)

vars == <<pending_urls, edited_image, generated_images, pc, attempt, caller,
          last, ret, entry, sweep_pre, head_log, ok_log, sleeps,
          refresh_shown, msgs, ev, runs, api_key, prompts, download, call>>

Snapshot == [pending |-> pending_urls, edited |-> edited_image,
             generated |-> generated_images]

NoSnapshot == [pending |-> <<>>, edited |-> None, generated |-> <<>>]

\* no request builder has been called
NoCall == [op |-> "none"]

\* the record of a call: the builder, its arguments, its result
Made(op, args, res) == [op |-> op, args |-> args, res |-> res]

\* a handler's run: passed is the builder call it made, where the model
\* follows the call into the builder
Event(site, sync, n, f, r, pre) ==
    [site |-> site, sync |-> sync, num_results |-> n, fail |-> f,
     resp |-> r, pre |-> pre, passed |-> NoCall]
NoEvent == Event("none", FALSE, 0, "none", NoResponse, NoSnapshot)

\* app.py:57-65  download_image(url): the GET answers and the bytes are
\* returned, or anything goes wrong, the error is shown and None is returned
DownloadResults == {"content", "error"}

\* the tabs with a file uploader and a preview column, in script order
Tabs == {"product", "fill", "erase"}

\* app.py:269, 663, 847  "if uploaded_file:": a handler's button is drawn only
\* with a file uploaded on its tab; the Generate Images tab needs none
TabOf(site) ==
    CASE site \in {"packshot", "shadow", "lifestyle_text", "lifestyle_image"} -> {"product"}
      [] site = "gen_fill" -> {"fill"}
      [] site = "erase" -> {"erase"}
      [] OTHER -> {}

\* the uploads a run of the handler at site can have: which tabs hold a file
\* is an input of the run, the handler's own tab among them
Uploads(site) == {up \in SUBSET Tabs : TabOf(site) \subseteq up}

\* the previews the script has passed when it comes to the handler at site:
\* app.py:636-638 lies above the Generative Fill handler (742), that and
\* 816-818 above the Erase handler (896)
Above(site) ==
    CASE site = "gen_fill" -> {"product"}
      [] site = "erase" -> {"product", "fill"}
      [] OTHER -> {}

\* app.py:636-638, 816-818, 938-940  the preview columns of the tabs in
\* tabs: with edited_image e set each calls download_image(e).  Nothing is
\* called ("none"), or every call returned the bytes ("content"), or one of
\* them showed the error ("error").
Previews(tabs, e) ==
    IF tabs = {} \/ ~IsSet(e) THEN {"none"} ELSE DownloadResults

\* the calls of two parts of a run taken together
Join(a, b) ==
    IF "error" \in {a, b} THEN "error"
    ELSE IF "content" \in {a, b} THEN "content"
    ELSE "none"

\* a run of the handler at site: the previews above it see edited_image as
\* the last run left it (e), those below it, when the run gets there (whole),
\* as the handler leaves it (e2)
Downloads(site, e, e2, whole) ==
    UNION {{Join(a, b) : a \in Previews(up \cap Above(site), e),
                        b \in IF whole THEN Previews(up \ Above(site), e2)
                              ELSE {"none"}} : up \in Uploads(site)}

\* the rest of such a run after auto_check_images has returned False, d
\* being what the previews above the handler did
DownloadsBelow(site, d, e) ==
    UNION {{Join(d, b) : b \in Previews(up \ Above(site), e)} : up \in Uploads(site)}

\* a run from the top in which no handler runs, the uploads being those of a
\* run of the handler at site
DownloadsAll(site, e) == UNION {Previews(up, e) : up \in Uploads(site)}

\* app.py:220, 745, 749, 899  the handler ends the run with st.stop()
Stopped(site, f) ==
    \/ site = "generate" /\ f = "missing_key"
    \/ f \in {"no_prompt", "no_mask", "no_drawing"}

\* number of sweeps the current (or last) poller call has made
sweeps == Len(ok_log)

\* ----------------------------------------------------------- poller steps
\* app.py:130 / 524 / 803  one call of check_generated_images
DoSweep(res) ==
    LET r == CheckGeneratedImages(pending_urls, edited_image, generated_images, res)
    IN  /\ head_log' = Heads(pending_urls, res)
        /\ sweep_pre' = Snapshot
        /\ pending_urls' = r.pending
        /\ edited_image' = r.edited
        /\ generated_images' = r.generated

\* a direct call of check_generated_images (SpecPoller)
CallCheck ==
    /\ pc = "idle"
    /\ \E res \in [1..Len(pending_urls) -> HeadResults] :
        LET r == CheckGeneratedImages(pending_urls, edited_image, generated_images, res)
        IN  /\ DoSweep(res)
            /\ ret' = IF r.raised THEN "raised" ELSE IF r.ret THEN "True" ELSE "False"
            /\ ok_log' = <<Answered200(Heads(pending_urls, res))>>
    /\ entry' = Snapshot
    /\ last' = "check"
    /\ sleeps' = 0
    /\ UNCHANGED <<pc, attempt, caller, refresh_shown, msgs, ev, runs, api_key,
                   prompts, download, call>>

\* app.py:124-127  entering auto_check_images
EnterAutoCheck(who) ==
    /\ pc' = "auto"
    /\ attempt' = 0
    /\ caller' = who
    /\ last' = "auto_enter"
    /\ ret' = "none"
    /\ head_log' = <<>>
    /\ ok_log' = <<>>
    /\ sleeps' = 0

\* a direct call of auto_check_images (SpecPoller)
CallAutoCheck ==
    /\ pc = "idle"
    /\ EnterAutoCheck("harness")
    /\ entry' = Snapshot
    /\ UNCHANGED <<pending_urls, edited_image, generated_images, sweep_pre,
                   refresh_shown, msgs, ev, runs, api_key, prompts, download, call>>

\* app.py:128-133  one iteration of the while loop: sleep, sweep, then either
\* show "Image ready!" in place of the status and return True (the UI callers
\* then call st.rerun(): app.py:518-519, 619-620, 799-800) or count the
\* attempt; an exception would leave the loop
AutoCheckSweep ==
    /\ pc = "auto"
    /\ LoopCond(attempt, pending_urls)
    /\ sleeps' = sleeps + 1
    /\ last' = "auto_sweep"
    /\ \E res \in [1..Len(pending_urls) -> HeadResults] :
        LET r == CheckGeneratedImages(pending_urls, edited_image, generated_images, res)
        IN  /\ DoSweep(res)
            /\ ok_log' = Append(ok_log, Answered200(Heads(pending_urls, res)))
            /\ IF r.ret \/ r.raised
               THEN /\ pc' = IF caller = "harness" THEN "idle" ELSE "rerun"
                    /\ ret' = IF r.raised THEN "raised" ELSE "True"
                    /\ attempt' = attempt
                    /\ refresh_shown' = FALSE
                    /\ msgs' = IF caller = "harness" THEN msgs ELSE {"success"}
                    /\ UNCHANGED download
               ELSE /\ pc' = "auto"
                    /\ ret' = "none"
                    /\ attempt' = attempt + 1
                    /\ UNCHANGED <<refresh_shown, msgs, download>>
    /\ UNCHANGED <<caller, entry, ev, runs, api_key, prompts, call>>

\* app.py:128, 134  the loop condition fails: return False; the UI callers go
\* on to draw the refresh button (app.py:522, 623, 802), which reports False
\* in this run
AutoCheckReturn ==
    /\ pc = "auto"
    /\ ~LoopCond(attempt, pending_urls)
    /\ pc' = "idle"
    /\ ret' = "False"
    /\ last' = "auto_return"
    /\ refresh_shown' = (caller # "harness")
    /\ IF caller = "harness" THEN UNCHANGED download
       ELSE download' \in DownloadsBelow(caller, download, edited_image)
    /\ UNCHANGED <<pending_urls, edited_image, generated_images, attempt, caller,
                   entry, sweep_pre, head_log, ok_log, sleeps, msgs, ev, runs,
                   api_key, prompts, call>>

\* ------------------------------------------------------------ the UI session
\* The script runs once per widget event; st.button reports True only in the
\* run started by pressing that button.

\* the poller's variables when a run has not called it
NoPollVars ==
    /\ attempt' = 0
    /\ caller' = "none"
    /\ last' = "none"
    /\ ret' = "none"
    /\ head_log' = <<>>
    /\ ok_log' = <<>>
    /\ sleeps' = 0
    /\ entry' = NoSnapshot
    /\ sweep_pre' = NoSnapshot

\* a handler that does not reach auto_check_images leaves the poller alone,
\* and the run goes on to its end
NoPoll ==
    /\ pc' = "idle"
    /\ NoPollVars

\* what a handler has assigned and shown when it is done with the result of
\* the builder call c
Ran(site, sync, n, f, r, o, c) ==
    /\ edited_image' = o.edited
    /\ pending_urls' = o.pending
    /\ generated_images' = o.generated
    /\ msgs' = o.shown
    /\ refresh_shown' = FALSE
    /\ ev' = [Event(site, sync, n, f, r, Snapshot) EXCEPT !.passed = c]
    /\ UNCHANGED <<runs, api_key, call>>

\* app.py:190  the handler ends with st.rerun(): the run is abandoned there,
\* above every preview column, and the script is about to start again
Reruns(site, sync, n, f, r, o, c) ==
    /\ Ran(site, sync, n, f, r, o, c)
    /\ pc' = "rerun"
    /\ NoPollVars
    /\ download' = "none"

\* the end of a handler's try block or except clause, after the builder call c
Handled(site, sync, n, f, r, o, c) ==
    /\ Ran(site, sync, n, f, r, o, c)
    /\ IF o.poll
       THEN /\ EnterAutoCheck(site)
            /\ entry' = [pending |-> o.pending, edited |-> o.edited,
                         generated |-> o.generated]
            /\ sweep_pre' = NoSnapshot
       ELSE NoPoll
    /\ download' \in Downloads(site, edited_image, o.edited,
                               ~o.poll /\ ~Stopped(site, f))

\* a handler outside the Generate Images tab: the prompt box is left alone
Finish(site, sync, n, f, r, o) ==
    /\ Handled(site, sync, n, f, r, o, NoCall)
    /\ UNCHANGED prompts

\* A widget event starts the script while none is running (at most max of
\* them are followed): main() starts from its top with an empty page, no
\* handler has run yet; the session state, and which button the user could
\* press on the old page, are what the last run left.
StartRun(max) ==
    /\ pc = "idle"
    /\ runs < max
    /\ pc' = "run"
    /\ runs' = runs + 1
    /\ NoPollVars
    /\ msgs' = {}
    /\ download' = "none"
    /\ ev' = NoEvent
    /\ UNCHANGED <<pending_urls, edited_image, generated_images, refresh_shown,
                   api_key, prompts, call>>

\* the script has been started and comes to the buttons: the one that was
\* pressed, if any, reports True
Started == pc = "run"

\* the except clause is reached with failure f: nothing was assigned
Fails(site, f) ==
    Finish(site, FALSE, 0, f, NoResponse,
           Caught(site, f, edited_image, pending_urls, generated_images))

\* ---- the prompt of the Generate Images tab
\* an optional text: <<>> for None, <<t>> for the text t
NoText == <<>>

\* app.py:206-209  the style selector (two of its seven entries)
Styles == {"Realistic", "Sketch"}
\* app.py:317  the shadow-type selector
ShadowChoices == {"Natural", "Drop"}

\* str.lower() on the entries of the selectors, and on "Float" (app.py:333)
Lower(choice) ==
    CASE choice = "Realistic" -> "realistic"
      [] choice = "Sketch" -> "sketch"
      [] choice = "Natural" -> "natural"
      [] choice = "Drop" -> "drop"
      [] choice = "Float" -> "float"

\* app.py:212-213  the style is appended to the local prompt
Styled(prompt, style) ==
    IF style # "Realistic"
    THEN prompt \o <<",", " ", "i", "n", " ", Lower(style), " ", "s", "t", "y", "l", "e">>
    ELSE prompt

\* app.py:40-55, 159  the prompt box is empty, original_prompt is "",
\* enhanced_prompt is None; enhanced_from is the text enhance_prompt was
\* given when it made the stored enhanced_prompt
InitPrompts ==
    [prompt_input |-> <<>>, original_prompt |-> <<>>, enhanced_prompt |-> NoText,
     enhanced_from |-> NoText]

\* variant of PromptSection: the enhanced prompt outlives an edit of the box
PromptSection_keep(ps, p) == [ps EXCEPT !.prompt_input = p, !.original_prompt = p]

\* app.py:159-171  a run reads the box (text p) and compares it with
\* original_prompt, which initialize_session_state has set
PromptSection(ps, p) ==
    IF p # ps.original_prompt
    THEN [ps EXCEPT !.prompt_input = p, !.original_prompt = p,
                    !.enhanced_prompt = NoText, !.enhanced_from = NoText]
    ELSE [ps EXCEPT !.prompt_input = p]

\* app.py:225  st.session_state.enhanced_prompt or prompt
OrText(enhanced, prompt) ==
    IF enhanced = NoText \/ enhanced[1] = <<>> THEN prompt ELSE enhanced[1]

\* app.py:224-233  the call of generate_hd_image (its module is not part of
\* the sources: only the prompt argument is followed)
GenerateCall(prompt) == [op |-> "generate_hd_image", prompt |-> prompt]

\* app.py:159-261  a run with text p in the prompt box, the style selector at
\* style and "Generate Images" pressed: without a key the handler stops at
\* line 220, else generate_hd_image fails or returns a response
GenerateRun(p, style) ==
    LET ps == PromptSection(prompts, p)
        c == GenerateCall(OrText(ps.enhanced_prompt, Styled(p, style)))
    IN  /\ prompts' = ps
        /\ IF api_key = None
           THEN Handled("generate", FALSE, 0, "missing_key", NoResponse,
                        Out(edited_image, pending_urls, generated_images, {"error"}, FALSE),
                        NoCall)
           ELSE \/ \E f \in Failures :
                    Handled("generate", FALSE, 0, f, NoResponse,
                            Caught("generate", f, edited_image, pending_urls,
                                   generated_images), c)
                \/ \E r \in Responses :
                    Handled("generate", TRUE, 0, "none", r,
                            NormalizeGenerate(r, edited_image, pending_urls,
                                              generated_images), c)

\* "Generate Images" pressed with the prompt box left as it is and the style
\* selector at its first entry
GenerateImages ==
    /\ Started
    /\ GenerateRun(prompts.prompt_input, "Realistic")

\* ---- the Product Photography tab
\* uploaded_file.getvalue(): the bytes of the uploaded product image
UploadedImage == "Man"

\* what the network does when a builder's request ends the way f says
NetOf(f) ==
    CASE f = "timeout" -> Net("timeout", 0, "none", "none")
      [] f = "http_422" -> Net("response", 422, "json", "none")
      [] f = "http_500" -> Net("response", 500, "json", "none")
      [] OTHER -> Net("response", 200, "json", "none")

\* str(e) of the exception a builder raised, by what the handlers look for
FailureOf(res) ==
    IF res.message = "http_error"
    THEN IF res.status = 422 THEN "http_422" ELSE "http_500"
    ELSE res.message

\* the responses as far as a handler that looks only for result_url tells them
\* apart: empty, without result_url, with result_url
ResultUrlResponses ==
    {r \in Responses : r.keys \in {{}, {"status"}, {"result_url", "urls"}}}

\* app.py:304-308, 360-364  the result is used only for its result_url
NormalizeResultUrl(r, e, p, g) ==
    IF Truthy(r) /\ "result_url" \in r.keys
    THEN Out(r.result_url, p, g, {"success"}, FALSE)
    ELSE Out(e, p, g, {"error"}, FALSE)

\* app.py:291-312  "Create Packshot": image_data is a local name of main that
\* is assigned only further down (app.py:638), so evaluating the argument
\* list raises UnboundLocalError before create_packshot is called; the except
\* clause shows it
CreatePackshot ==
    /\ Started
    /\ Fails("packshot", "unbound_local")

\* app.py:344-358  the call of add_shadow: the selector's entry, lowered, is
\* passed as shadow_type and the "Shadow Blur" slider, left where it starts,
\* as shadow_blur; the entry is never "Float", so shadow_width is None and
\* shadow_height is 70
ShadowCall(choice, net) ==
    LET shadow_type == Lower(choice)
        shadow_blur == <<UI_SHADOW_BLUR>>
        shadow_width == NoInt
        shadow_height == <<UI_SHADOW_HEIGHT>>
    IN  Made("add_shadow",
             [key |-> api_key, env |-> None, image_data |-> UploadedImage,
              image_url |-> None, shadow_type |-> shadow_type,
              shadow_blur |-> shadow_blur,
              shadow_width |-> shadow_width, shadow_height |-> shadow_height,
              explicit |-> {"shadow_width", "shadow_height"}, net |-> net],
             add_shadow(api_key, None, UploadedImage, None, shadow_type,
                        shadow_blur, shadow_width, shadow_height, net))

\* a handler whose builder call c raised: the except clause
Raises(site, c) ==
    Handled(site, FALSE, 0, FailureOf(c.res), NoResponse,
            Caught(site, FailureOf(c.res), edited_image, pending_urls,
                   generated_images), c)

\* app.py:314-368  "Add Shadow": the call raises, or returns a result that
\* is used for its result_url
AddShadow ==
    /\ Started
    /\ UNCHANGED prompts
    /\ \E choice \in ShadowChoices :
        \/ \E f \in Failures :
              /\ ShadowCall(choice, NetOf(f)).res.outcome = "raised"
              /\ Raises("shadow", ShadowCall(choice, NetOf(f)))
        \/ /\ ShadowCall(choice, NetOf("none")).res.outcome = "raised"
           /\ Raises("shadow", ShadowCall(choice, NetOf("none")))
        \/ /\ ShadowCall(choice, NetOf("none")).res.outcome = "returned"
           /\ \E r \in ResultUrlResponses :
                Handled("shadow", FALSE, 0, "none", r,
                        NormalizeResultUrl(r, edited_image, pending_urls,
                                           generated_images),
                        ShadowCall(choice, NetOf("none")))

\* app.py:386-403, 451, 551  shot_width is bound only for these placement
\* types; the others make the argument list raise UnboundLocalError
ShotSizeBound(placement) == placement \in {"Original", "Automatic", "Custom Coordinates"}

\* app.py:433-532 and 535-633  "Generate Lifestyle Shot" with a prompt
\* (a reference image) given.  The request builder raises for a missing key,
\* or the request fails, or a response comes back; the slider value n is read
\* by the handler in asynchronous mode only.
LifestyleShot(site) ==
    /\ Started
    /\ \/ /\ \E placement \in PlacementTypes : ~ShotSizeBound(placement)
          /\ Fails(site, "unbound_local")
       \/ /\ \E placement \in PlacementTypes : ShotSizeBound(placement)
          /\ IF api_key = None THEN Fails(site, "missing_key")
             ELSE \/ \E f \in Failures : Fails(site, f)
                  \/ \E r \in Responses :
                       Finish(site, TRUE, 0, "none", r,
                              NormalizeLifestyle(site, r, TRUE, 0, edited_image,
                                                 pending_urls, generated_images))
                  \/ \E r \in Responses, n \in 1..MaxResults :
                       Finish(site, FALSE, n, "none", r,
                              NormalizeLifestyle(site, r, FALSE, n, edited_image,
                                                 pending_urls, generated_images))

LifestyleShotText == LifestyleShot("lifestyle_text")
LifestyleShotImage == LifestyleShot("lifestyle_image")

\* app.py:742-810  "Generate" on the Generative Fill tab: without a prompt
\* or without a mask the handler shows an error and stops (app.py:743-749);
\* else generative_fill raises for a missing key, or the request fails, or a
\* response comes back
GenerativeFill ==
    /\ Started
    /\ \/ \E f \in {"no_prompt", "no_mask"} :
            Finish("gen_fill", FALSE, 0, f, NoResponse,
                   Out(edited_image, pending_urls, generated_images, {"error"}, FALSE))
       \/ /\ api_key = None
          /\ Fails("gen_fill", "missing_key")
       \/ /\ api_key # None
          /\ \/ \E f \in Failures : Fails("gen_fill", f)
             \/ \E r \in Responses :
                  Finish("gen_fill", TRUE, 0, "none", r,
                         NormalizeGenFill(r, TRUE, 0, edited_image, pending_urls,
                                          generated_images))
             \/ \E r \in Responses, n \in 1..MaxResults :
                  Finish("gen_fill", FALSE, n, "none", r,
                         NormalizeGenFill(r, FALSE, n, edited_image, pending_urls,
                                          generated_images))

\* app.py:911-915  the call of erase_foreground
EraseCall(net) ==
    Made("erase_foreground",
         [key |-> api_key, env |-> None, image_data |-> UploadedImage,
          image_url |-> None, net |-> net],
         erase_foreground(api_key, None, UploadedImage, None, net))

\* app.py:896-932  "Erase Selected Area" on the Erase Elements tab: without
\* a drawing the handler stops at line 899; the result is used for its
\* result_url, an empty result shows nothing
EraseSelectedArea ==
    /\ Started
    /\ UNCHANGED prompts
    /\ \/ Handled("erase", FALSE, 0, "no_drawing", NoResponse,
                  Out(edited_image, pending_urls, generated_images, {"warning"}, FALSE),
                  NoCall)
       \/ \E f \in Failures :
             /\ EraseCall(NetOf(f)).res.outcome = "raised"
             /\ Raises("erase", EraseCall(NetOf(f)))
       \/ /\ EraseCall(NetOf("none")).res.outcome = "raised"
          /\ Raises("erase", EraseCall(NetOf("none")))
       \/ /\ EraseCall(NetOf("none")).res.outcome = "returned"
          /\ \E r \in ResultUrlResponses :
               Handled("erase", FALSE, 0, "none", r,
                       IF ~Truthy(r)
                       THEN Out(edited_image, pending_urls, generated_images, {}, FALSE)
                       ELSE NormalizeResultUrl(r, edited_image, pending_urls,
                                               generated_images),
                       EraseCall(NetOf("none")))

\* A run of the script in which no handler's button reports True: nothing is
\* called and the refresh button, drawn only inside a handler (app.py:522,
\* 623, 802), is not drawn.
Blank(site) ==
    /\ msgs' = {}
    /\ refresh_shown' = FALSE
    /\ ev' = Event(site, FALSE, 0, "none", NoResponse, Snapshot)
    /\ NoPoll
    /\ download' \in DownloadsAll(site, edited_image)
    /\ UNCHANGED <<pending_urls, edited_image, generated_images, runs, api_key, call>>

\* such a run, the prompt box left as it is
BlankRun(site) ==
    /\ Started
    /\ Blank(site)
    /\ UNCHANGED prompts

\* the user presses "Check for Generated Images": the run it starts has the
\* enclosing "Generate ..." button False (app.py:433, 535, 742), so the lines
\* under it (app.py:522-528, 623-629, 802-807) are not reached
ClickRefresh ==
    /\ refresh_shown
    /\ BlankRun("refresh")

\* any other widget is changed
OtherEvent == BlankRun("other")

\* app.py:190, 519, 620, 800, then the script from its top  the run that
\* st.rerun() starts: the widgets hold what they held, no button reports
\* True, and the page of the abandoned run, its success message included, is
\* replaced
Rerun ==
    /\ pc = "rerun"
    /\ pc' = "idle"
    /\ prompts' = PromptSection(prompts, prompts.prompt_input)
    /\ msgs' = {}
    /\ refresh_shown' = FALSE
    /\ download' \in DownloadsAll(ev.site, edited_image)
    /\ UNCHANGED <<pending_urls, edited_image, generated_images, attempt, caller,
                   last, ret, entry, sweep_pre, head_log, ok_log, sleeps, ev,
                   runs, api_key, call>>

\* a widget event anywhere on the page
UserEvent == StartRun(MaxRuns)

\* app.py:40-55  initialize_session_state; the key comes from the environment
Init ==
    /\ api_key \in {None, "key"}
    /\ generated_images = <<>>
    /\ pending_urls = <<>>
    /\ edited_image = None
    /\ pc = "idle"
    /\ attempt = 0
    /\ caller = "none"
    /\ last = "none"
    /\ ret = "none"
    /\ entry = NoSnapshot
    /\ sweep_pre = NoSnapshot
    /\ head_log = <<>>
    /\ ok_log = <<>>
    /\ sleeps = 0
    /\ refresh_shown = FALSE
    /\ msgs = {}
    /\ ev = NoEvent
    /\ runs = 0
    /\ prompts = InitPrompts
    /\ download = "none"
    /\ call = NoCall

Next ==
    \/ UserEvent
    \/ GenerateImages
    \/ CreatePackshot
    \/ AddShadow
    \/ LifestyleShotText
    \/ LifestyleShotImage
    \/ GenerativeFill
    \/ EraseSelectedArea
    \/ AutoCheckSweep
    \/ AutoCheckReturn
    \/ Rerun
    \/ ClickRefresh
    \/ OtherEvent

Spec == Init /\ [][Next]_vars

\* ---- the prompt box, "Enhance" and "Generate Images"
\* a widget event on the Generate Images tab
PromptEvent == StartRun(MaxPromptRuns)


\* app.py:159-171  the text of the box is changed to p, or the script reruns
\* with the text it had: no button reports True
EditPrompt ==
    /\ Started
    /\ \E p \in Prompts : prompts' = PromptSection(prompts, p)
    /\ Blank("prompt")

\* app.py:159-192  "Enhance" pressed with text p in the box: an empty text
\* gets a warning, else enhance_prompt(p) is stored when it is not empty, the
\* success message is shown and st.rerun() is called
EnhancePrompt ==
    /\ Started
    /\ \E p \in Prompts, client_key \in ClientKeys, completion \in Completions :
        LET ps == PromptSection(prompts, p)
            res == enhance_prompt(p, client_key, completion)
            c == Made("enhance_prompt",
                      [key |-> None, env |-> client_key, prompt |-> p,
                       completion |-> completion],
                      res)
            same == Out(edited_image, pending_urls, generated_images, {"warning"}, FALSE)
        IN  IF p = <<>>
            THEN /\ prompts' = ps
                 /\ Handled("enhance", FALSE, 0, "none", NoResponse, same, NoCall)
            ELSE IF res.value # <<>>
            THEN /\ prompts' = [ps EXCEPT !.enhanced_prompt = <<res.value>>,
                                          !.enhanced_from = <<p>>]
                 /\ Reruns("enhance", FALSE, 0, "none", NoResponse,
                           [same EXCEPT !.shown = {"success"}], c)
            ELSE /\ prompts' = ps
                 /\ Handled("enhance", FALSE, 0, "none", NoResponse,
                            [same EXCEPT !.shown = {}], c)

\* "Generate Images" pressed, with any text in the box and any style
GenerateWithPrompt ==
    /\ Started
    /\ \E p \in Prompts, style \in Styles : GenerateRun(p, style)

NextPrompt ==
    \/ PromptEvent
    \/ EditPrompt
    \/ EnhancePrompt
    \/ Rerun
    \/ GenerateWithPrompt

\* the Generate Images tab alone, the prompt box being edited between runs
SpecPrompt == Init /\ [][NextPrompt]_vars

\* ------------------------------------------------------------- SpecPoller
PollerStart(lists, before) ==
    /\ pending_urls \in lists
    /\ \E b \in before :
        /\ edited_image = b[1]
        /\ generated_images = b[2]
    /\ pc = "idle"
    /\ attempt = 0
    /\ caller = "harness"
    /\ last = "none"
    /\ ret = "none"
    /\ entry = Snapshot
    /\ sweep_pre = Snapshot
    /\ head_log = <<>>
    /\ ok_log = <<>>
    /\ sleeps = 0
    /\ refresh_shown = FALSE
    /\ msgs = {}
    /\ ev = NoEvent
    /\ runs = 0
    /\ api_key = "key"
    /\ prompts = InitPrompts
    /\ download = "none"
    /\ call = NoCall

InitPoller ==
    PollerStart(SeqsUpTo(PollURLs, MaxPending),
                {<<None, <<>>>>, <<"old", <<"old", "older">>>>})

NextPoller ==
    \/ CallCheck
    \/ CallAutoCheck
    \/ AutoCheckSweep
    \/ AutoCheckReturn

SpecPoller == InitPoller /\ [][NextPoller]_vars

\* -------------------------------------------------------------- SpecAuto
\* One call of auto_check_images on a fresh session.  Nothing else runs
\* while the script is inside the loop, so each iteration and the return are
\* taken when they can be.
InitAuto ==
    PollerStart(SeqsUpTo(PollURLs, MaxAutoPending), {<<None, <<>>>>})

FirstAutoCheck ==
    /\ last = "none"
    /\ CallAutoCheck

NextAuto ==
    \/ FirstAutoCheck
    \/ AutoCheckSweep
    \/ AutoCheckReturn

SpecAuto ==
    /\ InitAuto
    /\ [][NextAuto]_vars
    /\ WF_vars(FirstAutoCheck)
    /\ WF_vars(AutoCheckSweep)
    /\ WF_vars(AutoCheckReturn)

\* ---- one call of a builder
\* an argument the caller passes, or leaves to its default d
Default(given, v, d) == IF given THEN v ELSE d

others == <<pending_urls, edited_image, generated_images, pc, attempt, caller,
            last, ret, entry, sweep_pre, head_log, ok_log, sleeps,
            refresh_shown, msgs, ev, runs, api_key, prompts, download>>

CallCreatePackshot ==
    /\ call = NoCall
    /\ UNCHANGED others
    /\ \E key \in KeyArgs, env \in EnvKeys, image_data \in ImageData, net \in NetOutcomes :
        call' = Made("create_packshot",
               [key |-> key, env |-> env, image_data |-> image_data, net |-> net],
               create_packshot(image_data, key, env, net))

CallAddShadow ==
    /\ call = NoCall
    /\ UNCHANGED others
    /\ \E key \in KeyArgs, env \in EnvKeys, image_data \in ImageData,
       image_url \in ImageUrls, shadow_type \in ShadowTypes,
       shadow_blur \in {NoInt, <<UI_SHADOW_BLUR>>},
       w \in {<<FALSE, NoInt>>, <<TRUE, <<40>>>>},
       h \in {<<FALSE, NoInt>>, <<TRUE, NoInt>>, <<TRUE, <<50>>>>},
       net \in NetOutcomes :
        call' = Made("add_shadow",
               [key |-> key, env |-> env, image_data |-> image_data,
                image_url |-> image_url, shadow_type |-> shadow_type,
                shadow_blur |-> shadow_blur,
                shadow_width |-> w[2], shadow_height |-> h[2],
                explicit |-> (IF w[1] THEN {"shadow_width"} ELSE {})
                             \cup (IF h[1] THEN {"shadow_height"} ELSE {}),
                net |-> net],
               add_shadow(key, env, image_data, image_url, shadow_type, shadow_blur,
                          Default(w[1], w[2], NoInt),
                          Default(h[1], h[2], <<DEFAULT_SHADOW_HEIGHT>>), net))

CallLifestyleShotByText ==
    /\ call = NoCall
    /\ UNCHANGED others
    /\ \E key \in KeyArgs, env \in EnvKeys, image_data \in ImageData,
       placement_type \in PlacementArgs, num_results \in NumResultsArgs,
       net \in NetOutcomes :
        call' = Made("lifestyle_shot_by_text",
               [key |-> key, env |-> env, image_data |-> image_data,
                placement_type |-> placement_type, num_results |-> num_results,
                net |-> net],
               lifestyle_shot_by_text(key, env, image_data, placement_type,
                                      num_results, net))

CallLifestyleShotByImage ==
    /\ call = NoCall
    /\ UNCHANGED others
    /\ \E key \in KeyArgs, env \in EnvKeys, image_data \in ImageData,
       reference_image \in ReferenceImages, placement_type \in PlacementArgs,
       num_results \in NumResultsArgs, net \in NetOutcomes :
        call' = Made("lifestyle_shot_by_image",
               [key |-> key, env |-> env, image_data |-> image_data,
                reference_image |-> reference_image,
                placement_type |-> placement_type, num_results |-> num_results,
                net |-> net],
               lifestyle_shot_by_image(key, env, image_data, reference_image,
                                       placement_type, num_results, net))

CallGenerativeFill ==
    /\ call = NoCall
    /\ UNCHANGED others
    /\ \E key \in KeyArgs, env \in EnvKeys, image_data \in ImageData,
       mask_data \in MaskData, num_results \in NumResultsArgs,
       net \in NetOutcomes :
        call' = Made("generative_fill",
               [key |-> key, env |-> env, image_data |-> image_data,
                mask_data |-> mask_data, num_results |-> num_results, net |-> net],
               generative_fill(key, env, image_data, mask_data, num_results, net))

CallEraseForeground ==
    /\ call = NoCall
    /\ UNCHANGED others
    /\ \E key \in KeyArgs, env \in EnvKeys, image_data \in ImageData,
       image_url \in ImageUrls, net \in NetOutcomes :
        call' = Made("erase_foreground",
               [key |-> key, env |-> env, image_data |-> image_data,
                image_url |-> image_url, net |-> net],
               erase_foreground(key, env, image_data, image_url, net))

\* the caller of enhance_prompt passes no key: the client holds the one of
\* the environment
CallEnhancePrompt ==
    /\ call = NoCall
    /\ UNCHANGED others
    /\ \E prompt \in Prompts, client_key \in ClientKeys, completion \in Completions :
        call' = Made("enhance_prompt",
               [key |-> None, env |-> client_key, prompt |-> prompt,
                completion |-> completion],
               enhance_prompt(prompt, client_key, completion))

NextBuilder ==
    \/ CallCreatePackshot
    \/ CallAddShadow
    \/ CallLifestyleShotByText
    \/ CallLifestyleShotByImage
    \/ CallGenerativeFill
    \/ CallEraseForeground
    \/ CallEnhancePrompt

\* one call of one builder, on every combination of arguments and every
\* behaviour of the network
InitBuilder == Init /\ api_key = "key"

SpecBuilder == InitBuilder /\ [][NextBuilder]_vars

\* ================================================================ claims
Swept == last \in {"check", "auto_sweep"}
AutoReturned == pc = "idle" /\ last \in {"auto_sweep", "auto_return"}
Count(s, x) == Cardinality({i \in 1..Len(s) : s[i] = x})
Without(s, x) == LET Other(y) == y # x IN SelectSeq(s, Other)

\* C1: after a sweep over a non-empty pending list, the entries answered with
\* 200 are gone from pending and the others are kept in order; if any was
\* answered with 200 the displayed image is the first of them in list order;
\* if more than one was, generated_images is exactly those URLs while the
\* displayed image is still the first.
C1_SweepResult ==
    (Swept /\ sweep_pre.pending # <<>>) =>
        LET ok == Answered200(head_log)
        IN  /\ [i \in 1..Len(head_log) |-> head_log[i].url] = sweep_pre.pending
            /\ pending_urls = NotAnswered200(head_log)
            /\ \A u \in Range(ok) :
                   Count(ok, u) = Count(sweep_pre.pending, u) => u \notin Range(pending_urls)
            /\ ok # <<>> => edited_image = ok[1]
            /\ Len(ok) > 1 => generated_images = ok /\ edited_image = ok[1]

C1_Witness ==
    /\ last = "check"
    /\ Len(sweep_pre.pending) = 3
    /\ Len(Answered200(head_log)) = 2
    /\ Answered200(head_log)[1] # Answered200(head_log)[2]
    /\ head_log[1].res.status = 204
    /\ Len(pending_urls) = 1

\* C2: in a sweep a URL counts as ready exactly when its HEAD request is
\* answered with status 200; with any other status, or when the request
\* raises, the URL stays in pending; the sweep returns a value and raises
\* nothing, and a sweep whose requests all raise returns False with pending
\* and the displayed image as they were.
C2_ReadyIff200 ==
    Swept =>
        /\ ret # "raised"
        /\ Len(pending_urls) =
               Cardinality({i \in 1..Len(head_log) : ~Is200(head_log[i].res)})
        /\ \A i \in 1..Len(head_log) :
               ~Is200(head_log[i].res) => head_log[i].url \in Range(pending_urls)
        /\ (last = "check") =>
               (ret = "True" <=> \E i \in 1..Len(head_log) : Is200(head_log[i].res))
        /\ (\A i \in 1..Len(head_log) : head_log[i].res.exc) =>
               /\ ret # "True"
               /\ pending_urls = sweep_pre.pending
               /\ edited_image = sweep_pre.edited

C2_Witness ==
    /\ last = "check"
    /\ Len(head_log) = 3
    /\ head_log[1].res.exc
    /\ head_log[2].res.status = 204
    /\ Is200(head_log[3].res)
    /\ ret = "True"
    /\ Len(pending_urls) = 2

\* C3: one call of auto_check_images makes at most 3 sweeps; a sweep in which
\* a URL is ready is the last one and the call returns True after it; and the
\* call always returns.
C3_Safety ==
    (last \in {"auto_enter", "auto_sweep", "auto_return"}) =>
        /\ sweeps <= 3
        /\ \A j \in 1..sweeps : (j < sweeps) => ok_log[j] = <<>>
        /\ (sweeps > 0 /\ ok_log[sweeps] # <<>>) => (pc = "idle" /\ ret = "True")
        /\ (ret = "True") => (sweeps > 0 /\ ok_log[sweeps] # <<>>)

C3_AtMostThreeSweeps ==
    /\ []C3_Safety
    /\ (pc = "auto") ~> (pc = "idle" /\ ret \in {"True", "False"})

C3_Witness ==
    /\ AutoReturned
    /\ ret = "True"
    /\ sweeps = 2
    /\ pending_urls # <<>>

\* C4: when auto_check_images has returned and, in its sweeps, no URL but u
\* was answered with 200, u was not answered with 200 before sweep k and was
\* at sweep k, then the displayed image is u, pending is the list at entry
\* without u, in order, and k <= 3 sweeps were made.
C4_OneReady ==
    AutoReturned =>
        \A u \in Range(entry.pending), k \in 1..sweeps :
            ( /\ \A j \in 1..sweeps : Range(ok_log[j]) \subseteq {u}
              /\ \A j \in 1..(k - 1) : ok_log[j] = <<>>
              /\ Count(ok_log[k], u) = Count(entry.pending, u) )
            => /\ edited_image = u
               /\ pending_urls = Without(entry.pending, u)
               /\ sweeps = k
               /\ sweeps <= 3
               /\ ret = "True"

C4_Witness ==
    /\ AutoReturned
    /\ entry.pending = <<"url1", "url2", "url3">>
    /\ ok_log = << <<>>, <<"url2">> >>
    /\ edited_image = "url2"
    /\ pending_urls = <<"url1", "url3">>

\* C6: a pending URL that no sweep of a poller call saw answered with 200 is
\* still in pending, however many sweeps were made; and when no URL was
\* answered with 200 in the 3 sweeps of auto_check_images, it returns False
\* with pending non-empty and equal to the list at entry.
C6_NeverExpires ==
    /\ (last # "none") =>
           \A u \in Range(entry.pending) :
               (\A j \in 1..sweeps : u \notin Range(ok_log[j])) => u \in Range(pending_urls)
    /\ (AutoReturned /\ entry.pending # <<>> /\ \A j \in 1..sweeps : ok_log[j] = <<>>) =>
           /\ ret = "False"
           /\ sweeps = 3
           /\ pending_urls = entry.pending

C6_Witness ==
    /\ AutoReturned
    /\ Len(entry.pending) = 3
    /\ sweeps = 3
    /\ ret = "False"
    /\ head_log[1].res.exc
    /\ head_log[2].res.status = 204
    /\ pending_urls = entry.pending

\* C7: check_generated_images on an empty pending list makes no HEAD request,
\* returns False and leaves pending, the displayed image and generated_images
\* as they were; auto_check_images on an empty pending list makes no sweep
\* and does not sleep.
C7_EmptyNoOp ==
    /\ (last = "check" /\ sweep_pre.pending = <<>>) =>
           /\ head_log = <<>>
           /\ ret = "False"
           /\ Snapshot = sweep_pre
    /\ (last \in {"auto_enter", "auto_sweep", "auto_return"} /\ entry.pending = <<>>) =>
           /\ sweeps = 0
           /\ sleeps = 0
           /\ head_log = <<>>
           /\ last # "auto_sweep"
           /\ Snapshot = entry
           /\ (pc = "idle") => ret = "False"

C7_Witness ==
    /\ last = "check"
    /\ sweep_pre.pending = <<>>
    /\ edited_image = "old"
    /\ generated_images # <<>>

\* ------------------------------------------------------- claims on the UI
\* a handler ran in synchronous mode on a non-empty response
SyncRun == ev.fail = "none" /\ ev.sync /\ Truthy(ev.resp)
Has(k) == k \in ev.resp.keys

\* the first item of result["result"] that matches (0 if none): a mapping
\* that contains urls, or a sequence with an element
Matches(item) ==
    \/ item.kind = "dict" /\ item.has_urls
    \/ item.kind = "list" /\ item.elems # <<>>
FirstMatching(items) ==
    IF \E i \in 1..Len(items) : Matches(items[i])
    THEN CHOOSE i \in 1..Len(items) :
             Matches(items[i]) /\ \A j \in 1..(i - 1) : ~Matches(items[j])
    ELSE 0
\* the URL the result sequence yields, None if it yields none
ResultUrl(items) ==
    IF FirstMatching(items) = 0 THEN None
    ELSE IF items[FirstMatching(items)].elems = <<>> THEN None
    ELSE items[FirstMatching(items)].elems[1]

\* C5: the refresh button is on the page after auto_check_images has given
\* up with URLs still pending, and the run started by pressing it makes
\* exactly one sweep over the pending list.
C5_ManualRecheck ==
    /\ (AutoReturned /\ caller # "harness" /\ ret = "False" /\ pending_urls # <<>>)
           => refresh_shown
    /\ (ev.site = "refresh" /\ ev.pre.pending # <<>>) =>
           /\ last = "check"
           /\ sweeps = 1
           /\ [i \in 1..Len(head_log) |-> head_log[i].url] = ev.pre.pending

\* C8: in synchronous mode every handler takes result_url first, then
\* result_urls[0], then the result sequence, then urls: of the keys present
\* in the response the one earliest in that order decides the displayed image.
C8_SamePriority ==
    SyncRun =>
        /\ Has("result_url") => edited_image = ev.resp.result_url
        /\ (~Has("result_url") /\ Has("result_urls") /\ ev.resp.result_urls # <<>>)
               => edited_image = ev.resp.result_urls[1]
        /\ (~Has("result_url") /\ ~Has("result_urls") /\ Has("result") /\ Has("urls")
                /\ ev.resp.result_list /\ ResultUrl(ev.resp.result) # None)
               => edited_image = ResultUrl(ev.resp.result)

\* C9: in synchronous mode a response whose only known key is result, a
\* sequence with a mapping that has urls, puts the first URL of the first
\* such mapping on display and leaves pending alone.
C9_ResultFallback ==
    (SyncRun /\ ev.resp.keys = {"result"} /\ ev.resp.result_list
        /\ ResultUrl(ev.resp.result) # None) =>
        /\ edited_image = ResultUrl(ev.resp.result)
        /\ pending_urls = ev.pre.pending
        /\ pc = "idle"

\* no shape of the response yields a URL
NoUrlIn(r) ==
    /\ "result_url" \notin r.keys
    /\ "result_urls" \in r.keys => r.result_urls = <<>>
    /\ ("result" \in r.keys /\ r.result_list) => ResultUrl(r.result) = None
    /\ "urls" \in r.keys => r.urls = <<>>

\* C10: a response that matches no known shape, or a shape with an empty
\* list, changes neither the displayed image nor pending, reports no success
\* and no exception, and the handler shows the "no valid result" state.
C10_NoValidResult ==
    (ev.fail = "none" /\ ev.site \in {"generate", "lifestyle_text", "lifestyle_image", "gen_fill"}
        /\ Truthy(ev.resp) /\ NoUrlIn(ev.resp)) =>
        /\ edited_image = ev.pre.edited
        /\ pending_urls = ev.pre.pending
        /\ "success" \notin msgs
        /\ "error" \notin msgs
        /\ "no_valid" \in msgs

\* a handler ran in asynchronous mode on a non-empty response
AsyncRun ==
    /\ ev.site \in {"lifestyle_text", "lifestyle_image", "gen_fill"}
    /\ ev.fail = "none"
    /\ ~ev.sync
    /\ Truthy(ev.resp)

\* the first n entries of s, all of s when it has fewer
FirstN(s, n) == [i \in 1..(IF Len(s) < n THEN Len(s) ELSE n) |-> s[i]]

\* the urls lists of the mappings of a result sequence, one after the other
RECURSIVE NestedUrls(_, _)
NestedUrls(items, i) ==
    IF i > Len(items) THEN <<>> ELSE items[i].elems \o NestedUrls(items, i + 1)

\* the response has urls, or else a result sequence of mappings with urls
HasUrlsShape(r) == "urls" \in r.keys /\ r.urls # <<>>
HasResultShape(r) ==
    /\ "urls" \notin r.keys
    /\ "result" \in r.keys
    /\ r.result_list
    /\ \A i \in 1..Len(r.result) : r.result[i].kind = "dict" /\ r.result[i].has_urls
    /\ NestedUrls(r.result, 1) # <<>>
ExtractedUrls(r) == IF HasUrlsShape(r) THEN r.urls ELSE NestedUrls(r.result, 1)

\* C11: in asynchronous mode, when the response has urls or a result sequence
\* with nested urls, the handler makes the extracted list, cut to num_results,
\* the pending list and does not touch the displayed image; the displayed image
\* changes afterwards only by a sweep that saw one of those URLs answered 200.
C11_AsyncPending ==
    (AsyncRun /\ (HasUrlsShape(ev.resp) \/ HasResultShape(ev.resp))) =>
        LET listed == FirstN(ExtractedUrls(ev.resp), ev.num_results)
        IN  /\ (last \in {"none", "auto_enter"}) =>
                   /\ pending_urls = listed
                   /\ edited_image = ev.pre.edited
            /\ (edited_image # ev.pre.edited) =>
                   /\ last = "auto_sweep"
                   /\ edited_image \in Range(ok_log[sweeps])
                   /\ edited_image \in Range(listed)

\* C12: Generative Fill in asynchronous mode with urls in the response makes
\* pending the first min(num_results, len(urls)) entries of urls, in order,
\* and pending never holds more than num_results entries afterwards.
C12_GenFillTruncation ==
    (AsyncRun /\ ev.site = "gen_fill" /\ Has("urls")) =>
        /\ (last = "auto_enter") => pending_urls = FirstN(ev.resp.urls, ev.num_results)
        /\ last # "none"
        /\ Len(pending_urls) <= ev.num_results
        /\ Len(pending_urls) <= Len(ev.resp.urls)

C12_Witness ==
    /\ AsyncRun
    /\ ev.site = "gen_fill"
    /\ last = "auto_enter"
    /\ ev.num_results = 2
    /\ ev.resp.urls = <<"B", "X", "Y">>
    /\ pending_urls = <<"B", "X">>

\* ------------------------------------------------- claims on the builders
ImageBuilders == {"create_packshot", "add_shadow", "lifestyle_shot_by_text",
                  "lifestyle_shot_by_image", "generative_fill", "erase_foreground"}
Builders == ImageBuilders \cup {"enhance_prompt"}
EitherFormBuilders == {"add_shadow", "erase_foreground"}

\* an argument that is not supplied: None, or empty
Absent(x) == x \in {None, ""}
HasCredential == ~Absent(call.args.key) \/ ~Absent(call.args.env)
NoNetworkCall == call.res.posts = <<>>

\* C13: add_shadow and erase_foreground, called with a credential but with
\* neither image_data nor image_url, raise ValueError for the missing image
\* and have sent nothing.
C13_NeitherImage ==
    (call.op \in EitherFormBuilders /\ HasCredential
        /\ Absent(call.args.image_data) /\ Absent(call.args.image_url)) =>
        /\ call.res.outcome = "raised"
        /\ call.res.error = "ValueError"
        /\ call.res.message = "missing_image"
        /\ NoNetworkCall

C13_Witness ==
    /\ call.op = "add_shadow"
    /\ call.args.key = None
    /\ call.args.env = "env_key"
    /\ call.args.image_data = ""
    /\ call.args.image_url = None
    /\ call.res.error = "ValueError"
    /\ call.res.message = "missing_image"

\* C14 as stated: each of the seven builders, called without a credential
\* when the environment has none, raises the missing-credential error and
\* sends nothing; with none from the caller and one in the environment, the
\* request carries the environment's value as api_token.
C14_MissingCredential ==
    (call.op \in Builders) =>
        /\ ~HasCredential =>
               /\ call.res.outcome = "raised"
               /\ call.res.error = "ValueError"
               /\ call.res.message = "missing_key"
               /\ NoNetworkCall
        /\ (Absent(call.args.key) /\ ~Absent(call.args.env)) =>
               \A i \in 1..Len(call.res.posts) : call.res.posts[i].token = call.args.env

\* C14, amended: the six image-API builders do as stated; enhance_prompt
\* without a credential raises nothing, sends nothing and returns the prompt.
C14_MissingCredentialImageBuilders ==
    /\ (call.op \in ImageBuilders) =>
           /\ ~HasCredential =>
                  /\ call.res.outcome = "raised"
                  /\ call.res.error = "ValueError"
                  /\ call.res.message = "missing_key"
                  /\ NoNetworkCall
           /\ (Absent(call.args.key) /\ ~Absent(call.args.env)) =>
                  /\ call.res.message # "missing_key"
                  /\ \A i \in 1..Len(call.res.posts) :
                         call.res.posts[i].token = call.args.env
    /\ (call.op = "enhance_prompt" /\ ~HasCredential) =>
           /\ call.res.outcome = "returned"
           /\ call.res.value = call.args.prompt
           /\ NoNetworkCall

C14_Witness ==
    /\ call.op = "generative_fill"
    /\ call.args.key = ""
    /\ call.args.env = "env_key"
    /\ call.args.image_data = "Man"
    /\ call.args.mask_data = "fbff"
    /\ Len(call.res.posts) = 1
    /\ call.res.posts[1].token = "env_key"

\* C15: add_shadow and erase_foreground called with both image_data and
\* image_url are rejected with an error before anything is sent.
C15_ExactlyOneSource ==
    (call.op \in EitherFormBuilders /\ HasCredential
        /\ ~Absent(call.args.image_data) /\ ~Absent(call.args.image_url)) =>
        /\ call.res.outcome = "raised"
        /\ NoNetworkCall

\* the call has a credential and the inputs its builder needs
PassesValidation ==
    /\ HasCredential
    /\ CASE call.op \in EitherFormBuilders ->
                ~Absent(call.args.image_data) \/ ~Absent(call.args.image_url)
         [] call.op = "lifestyle_shot_by_image" ->
                call.args.image_data # None /\ call.args.reference_image # None
         [] call.op = "generative_fill" ->
                call.args.image_data # None /\ call.args.mask_data # None
         [] OTHER -> call.args.image_data # None

\* C16: a call of an image-API builder that passes credential and input
\* validation sends exactly one POST, with timeout 15, whether the request
\* succeeds or fails.
C16_OnePost ==
    (call.op \in ImageBuilders /\ PassesValidation) =>
        /\ Len(call.res.posts) = 1
        /\ call.res.posts[1].timeout = 15

C16_Witness ==
    /\ call.op = "lifestyle_shot_by_text"
    /\ PassesValidation
    /\ call.args.net.kind = "timeout"
    /\ call.res.outcome = "raised"
    /\ Len(call.res.posts) = 1

\* the failure condition of the network call, "none" if it has none
Condition(net) ==
    IF net.kind = "timeout" THEN "Timeout"
    ELSE IF net.kind = "connection" THEN "RequestError"
    ELSE IF net.status < 200 \/ net.status > 299 THEN "HTTPError"
    ELSE IF net.body # "json" THEN "DecodeError"
    ELSE "none"
MessageFor(cond) ==
    CASE cond = "Timeout" -> "timeout"
      [] cond = "HTTPError" -> "http_error"
      [] cond = "RequestError" -> "request_error"
      [] cond = "DecodeError" -> "invalid_json"

\* C17: in an image-API builder each failure condition of the network call
\* (Timeout, HTTPError on a non-2xx status, RequestError, DecodeError) leaves
\* the call as one raised Exception whose message is that of the condition's
\* own handler, after a single request.
C17_OwnHandler ==
    (call.op \in ImageBuilders /\ PassesValidation
        /\ Condition(call.args.net) # "none") =>
        /\ call.res.outcome = "raised"
        /\ call.res.error = "Exception"
        /\ call.res.message = MessageFor(Condition(call.args.net))
        /\ Len(call.res.posts) = 1

\* C18: where a handler calls a request builder, the content-moderation hint
\* is shown exactly when the builder failed with an HTTPError of status 422,
\* whichever the operation.
C18_ModerationHint ==
    (ev.site \in {"lifestyle_text", "lifestyle_image", "gen_fill"}) =>
        ("hint_422" \in msgs <=> ev.fail = "http_422")

\* C19: add_shadow with shadow_type "float" and no shadow_height argument
\* sends shadow_height 70; with shadow_type "regular" it sends shadow_width
\* and shadow_height only when the caller passed that argument.
C19_ShadowDefaults ==
    (call.op = "add_shadow" /\ call.res.posts # <<>>) =>
        LET data == call.res.posts[1].payload
        IN  /\ (call.args.shadow_type = "float" /\ "shadow_height" \notin call.args.explicit) =>
                   /\ "shadow_height" \in data.keys
                   /\ data.shadow_height = <<70>>
            /\ (call.args.shadow_type = "regular") =>
                   \A k \in {"shadow_width", "shadow_height"} :
                       k \in data.keys => k \in call.args.explicit

\* the text without the blanks at its ends
Trimmed(t) ==
    IF \A i \in 1..Len(t) : t[i] = " " THEN <<>>
    ELSE LET first == CHOOSE i \in 1..Len(t) : t[i] # " " /\ \A j \in 1..(i - 1) : t[j] = " "
             final == CHOOSE i \in 1..Len(t) : t[i] # " " /\ \A j \in (i + 1)..Len(t) : t[j] = " "
         IN  [i \in 1..(final - first + 1) |-> t[first + i - 1]]

\* the completion gives a text that is not empty once trimmed
Enhanced ==
    /\ ~Absent(call.args.env)
    /\ call.args.completion.kind = "content"
    /\ Trimmed(call.args.completion.text) # <<>>

\* C20: enhance_prompt always returns: the prompt as it was given when the
\* credential is missing, the completion call raises, or the content is
\* missing or empty; the trimmed, non-empty completion text otherwise.
C20_EnhanceNeverFails ==
    (call.op = "enhance_prompt") =>
        /\ call.res.outcome = "returned"
        /\ call.res.error = "none"
        /\ ~Enhanced => call.res.value = call.args.prompt
        /\ Enhanced =>
               /\ call.res.value = Trimmed(call.args.completion.text)
               /\ call.res.value # <<>>

C20_Witness ==
    /\ call.op = "enhance_prompt"
    /\ call.args.prompt = <<" ", "p", " ">>
    /\ call.args.completion.text = <<" ", "x", " ">>
    /\ call.res.value = <<"x">>

\* C21: the num_results that generative_fill puts in the payload is the
\* argument clamped into 1..4: 1 for an argument below 1, 4 for an argument
\* above 4, the argument itself otherwise.
C21_NumResultsClamped ==
    (call.op = "generative_fill" /\ call.res.posts # <<>>) =>
        LET n == call.args.num_results
            sent == call.res.posts[1].payload.num_results
        IN  /\ "num_results" \in call.res.posts[1].payload.keys
            /\ sent \in 1..4
            /\ (n < 1) => (sent = 1)
            /\ (n > 4) => (sent = 4)
            /\ (n \in 1..4) => (sent = n)

C21_Witness ==
    /\ call.op = "generative_fill"
    /\ call.res.posts # <<>>
    /\ call.args.num_results = -1
    /\ call.res.posts[1].payload.num_results = 1

\* C22: a sweep makes one HEAD request for each entry of the pending list it
\* started from, one after the other in list order, and none for a URL that
\* is not in that list.
C22_OneHeadPerPending ==
    Swept =>
        /\ Len(head_log) = Len(sweep_pre.pending)
        /\ \A i \in 1..Len(head_log) : head_log[i].url = sweep_pre.pending[i]
        /\ \A i \in 1..Len(head_log) : head_log[i].url \in Range(sweep_pre.pending)

C22_Witness ==
    /\ last = "check"
    /\ Len(head_log) = 3
    /\ head_log[1].url # head_log[2].url
    /\ head_log[1].res.exc
    /\ Is200(head_log[2].res)

\* the value of a base64 character, the inverse of B64Char
B64Value(c) == CHOOSE v \in 0..63 : B64Char(v) = c

\* base64 decoding of a text: four characters become three bytes, a group
\* ending in "==" one byte, a group ending in "=" two; <<-1>> for a text that
\* is not an encoding
RECURSIVE B64Decode(_)
B64Decode(t) ==
    IF t = <<>> THEN <<>>
    ELSE IF Len(t) < 4 \/ t[1] = "=" \/ t[2] = "=" THEN <<-1>>
    ELSE LET v1 == B64Value(t[1])
             v2 == B64Value(t[2])
         IN  IF t[3] = "="
             THEN IF Len(t) = 4 /\ t[4] = "=" THEN <<v1 * 4 + v2 \div 16>> ELSE <<-1>>
             ELSE IF t[4] = "="
             THEN IF Len(t) = 4
                  THEN <<v1 * 4 + v2 \div 16, (v2 % 16) * 16 + B64Value(t[3]) \div 4>>
                  ELSE <<-1>>
             ELSE LET rest == B64Decode(SubSeq(t, 5, Len(t)))
                  IN  IF rest = <<-1>> THEN rest
                      ELSE <<v1 * 4 + v2 \div 16,
                             (v2 % 16) * 16 + B64Value(t[3]) \div 4,
                             (B64Value(t[3]) % 4) * 64 + B64Value(t[4])>> \o rest

\* the request of the call carries the byte string d under the field name
Carries(name, field, d) ==
    /\ name \in call.res.posts[1].payload.keys
    /\ B64Decode(field) = Bytes(d)

\* the call sends its image as bytes, not as a URL
SendsImageData ==
    /\ call.op \in ImageBuilders
    /\ call.res.posts # <<>>
    /\ call.op \in EitherFormBuilders => Absent(call.args.image_url)

\* C23: whatever bytes a builder is given, the request carries them encoded
\* once in base64 under the builder's field name, file for the image,
\* mask_file for the mask, ref_image_file for the reference image, so that
\* decoding the field gives the bytes back.
C23_Base64RoundTrip ==
    /\ SendsImageData =>
            Carries("file", call.res.posts[1].payload.file, call.args.image_data)
    /\ (call.op = "generative_fill" /\ call.res.posts # <<>>) =>
            Carries("mask_file", call.res.posts[1].payload.mask_file, call.args.mask_data)
    /\ (call.op = "lifestyle_shot_by_image" /\ call.res.posts # <<>>) =>
            Carries("ref_image_file", call.res.posts[1].payload.ref_image_file,
                    call.args.reference_image)

C23_Witness ==
    /\ call.op = "generative_fill"
    /\ call.res.posts # <<>>
    /\ call.args.image_data = "Ma"
    /\ call.res.posts[1].payload.file = <<"T", "W", "E", "=">>
    /\ call.res.posts[1].payload.mask_file = <<"+", "/", "8", "=">>

\* a is b with some entries left out
RECURSIVE IsSubseq(_, _)
IsSubseq(a, b) ==
    IF a = <<>> THEN TRUE
    ELSE IF b = <<>> THEN FALSE
    ELSE IF a[1] = b[1] THEN IsSubseq(Tail(a), Tail(b))
    ELSE IsSubseq(a, Tail(b))

\* C27: a sweep splits the entries of the pending list it started from between
\* the ready URLs and the new pending list, each entry going to exactly one;
\* the new pending list is the old one with entries left out, so it has no
\* URL and no repetition the old one had not and is never longer, also over
\* the sweeps of one auto_check_images call; an image the sweep puts on
\* display is a URL of the list it started from.
C27_SweepPartition ==
    Swept =>
        /\ \A u \in PollURLs :
              Count(sweep_pre.pending, u)
                  = Count(Answered200(head_log), u) + Count(pending_urls, u)
        /\ IsSubseq(pending_urls, sweep_pre.pending)
        /\ Range(pending_urls) \subseteq Range(sweep_pre.pending)
        /\ Len(pending_urls) <= Len(sweep_pre.pending)
        /\ Len(sweep_pre.pending) <= Len(entry.pending)
        /\ IsSubseq(pending_urls, entry.pending)
        /\ (ret = "True" \/ edited_image # sweep_pre.edited) =>
              edited_image \in Range(sweep_pre.pending)

C27_Witness ==
    /\ last = "auto_sweep"
    /\ sweeps = 2
    /\ Len(entry.pending) = 3
    /\ Len(sweep_pre.pending) = 3
    /\ Len(pending_urls) = 1
    /\ edited_image \in Range(sweep_pre.pending)
    /\ edited_image # sweep_pre.edited

\* C28: add_shadow and erase_foreground look for the credential before they
\* look for the image: a call with neither credential nor image fails for
\* the missing credential, a call with a credential and no image fails for
\* the missing image, and no request is sent unless both are there.
C28_CredentialBeforeImage ==
    call.op \in EitherFormBuilders =>
        LET no_image == Absent(call.args.image_data) /\ Absent(call.args.image_url)
        IN  /\ ~HasCredential =>
                /\ call.res.outcome = "raised"
                /\ call.res.error = "ValueError"
                /\ call.res.message = "missing_key"
                /\ NoNetworkCall
            /\ (HasCredential /\ no_image) =>
                /\ call.res.outcome = "raised"
                /\ call.res.error = "ValueError"
                /\ call.res.message = "missing_image"
                /\ NoNetworkCall
            /\ ~NoNetworkCall => (HasCredential /\ ~no_image)

C28_Witness ==
    /\ call.op = "erase_foreground"
    /\ ~HasCredential
    /\ Absent(call.args.image_data)
    /\ Absent(call.args.image_url)
    /\ call.res.message = "missing_key"

\* C24: the shadow_type that the Add Shadow handler passes to add_shadow, and
\* that add_shadow sends, is "regular" or "float" whichever entry of the
\* shadow-type selector is chosen.
C24_UiShadowType ==
    (ev.site = "shadow" /\ ev.passed.op = "add_shadow") =>
        /\ ev.passed.args.shadow_type \in {"regular", "float"}
        /\ \A i \in 1..Len(ev.passed.res.posts) :
              ev.passed.res.posts[i].payload.shadow_type \in {"regular", "float"}

\* a handler has run and no sweep has been made since
HandlerJustRan == ev.site # "none" /\ last \in {"none", "auto_enter"}

\* C25: a handler changes the pending list only in asynchronous mode and only
\* to a non-empty list of URLs taken from the response, which then is the
\* whole pending list; in synchronous mode the pending list is what it was.
C25_PendingFrame ==
    HandlerJustRan =>
        /\ (pending_urls # ev.pre.pending) => (AsyncRun /\ pending_urls # <<>>)
        /\ ev.sync => (pending_urls = ev.pre.pending)
        /\ (AsyncRun /\ HasUrlsShape(ev.resp)) =>
              pending_urls = FirstN(ev.resp.urls, ev.num_results)

\* the handlers that call a request builder
HandlerSites == {"generate", "packshot", "shadow", "lifestyle_text",
                 "lifestyle_image", "gen_fill", "erase"}
BuilderFailed == ev.site \in HandlerSites /\ ev.fail \in Failures \cup {"missing_key"}

\* C26: when the builder call of a handler raises, the displayed image, the
\* pending list and the multi-result list are what they were before the
\* button was pressed, an error is shown, and the run ends normally, without
\* polling.
C26_FailureKeepsState ==
    BuilderFailed =>
        /\ Snapshot = ev.pre
        /\ "error" \in msgs
        /\ "success" \notin msgs
        /\ pc = "idle"
        /\ last = "none"

C26_Witness ==
    /\ ev.site = "gen_fill"
    /\ ev.fail = "timeout"
    /\ pending_urls # <<>>
    /\ edited_image # None
    /\ "error" \in msgs

\* the texts enhance_prompt can return for the prompt p
EnhancementsOf(p) ==
    {enhance_prompt(p, k, c).value : k \in ClientKeys, c \in Completions}

\* C29: after every run the stored original_prompt is the text of the prompt
\* box, and a stored enhanced_prompt was returned by enhance_prompt for that
\* text; so the enhanced prompt that Generate Images passes on was made from
\* the text now in the box.
C29_EnhancedFromCurrentPrompt ==
    /\ prompts.original_prompt = prompts.prompt_input
    /\ (prompts.enhanced_prompt # NoText) =>
          /\ prompts.enhanced_from = <<prompts.prompt_input>>
          /\ prompts.enhanced_prompt[1] \in EnhancementsOf(prompts.prompt_input)
          /\ (ev.site = "generate" /\ ev.passed.op = "generate_hd_image") =>
                ev.passed.prompt = prompts.enhanced_prompt[1]

C29_Witness ==
    /\ ev.site = "generate"
    /\ ev.passed.op = "generate_hd_image"
    /\ prompts.prompt_input = <<"p">>
    /\ prompts.enhanced_prompt = << <<"x">> >>
    /\ ev.passed.prompt = <<"x">>
    /\ runs = 3

\* C30: with a product image uploaded and a key configured, the button of
\* every edit option calls its request builder: no name in the argument list
\* is unbound, the image bytes are the builder's image_data, the key is its
\* api_key, and the builder sends its request.
C30_ArgumentsDefined ==
    (ev.site \in {"packshot", "shadow", "lifestyle_text"} /\ api_key # None) =>
        /\ ev.fail # "unbound_local"
        /\ (ev.site \in {"packshot", "shadow"}) =>
              /\ ev.passed.op \in {"create_packshot", "add_shadow"}
              /\ ev.passed.args.image_data = UploadedImage
              /\ ev.passed.args.key = api_key
              /\ ev.passed.res.posts # <<>>

TypeOK ==
    /\ pc \in {"idle", "run", "auto", "rerun"}
    /\ download \in {"none"} \cup DownloadResults
    /\ attempt \in 0..max_attempts
    /\ ret \in {"none", "True", "False", "raised"}
====
